---- MODULE Spec2Model ----
(***************************************************************************)
(* Model of python_client.py: the two facade functions register_user and   *)
(* get_polls, each of which makes one call into the requests library and   *)
(* maps what comes back (a response, or an exception) to a Result dict.    *)
(*                                                                         *)
(* A call is modelled in three steps: the caller enters the function       *)
(* (RegisterUserCall / GetPollsCall), the library call completes with a    *)
(* response or an exception chosen by the environment (RequestsPost /      *)
(* RequestsGet), and the function body runs to its end                     *)
(* (RegisterUserReturn / GetPollsReturn).  Python's exception propagation  *)
(* is modelled by completion records: a block either returns a value or    *)
(* raises an exception, and an except clause catches an exception when its *)
(* class is among the exception's base classes.                            *)
(*                                                                         *)
(* Scope: exceptions derived from Exception.  KeyboardInterrupt and        *)
(* SystemExit (BaseException only) are asynchronous signals, not outcomes  *)
(* of the request, and are not modelled.  response.json() is the one of    *)
(* requests >= 2.27 without simplejson: it raises                          *)
(* requests.exceptions.JSONDecodeError, which derives from both            *)
(* json.JSONDecodeError and RequestException.                              *)
(***************************************************************************)
EXTENDS Integers, Sequences, FiniteSets, TLC

VARIABLES
    pc,        \* "idle" | "request" (inside requests.post/get) | "handle"
    call,      \* arguments of the call in progress / last call
    response,  \* what the library call produced for this call
    attempts,  \* number of times the library was invoked during this call
    outcome,   \* how the last call ended: returned Result or raised exception
    prev       \* the call completed before the last one: [call, response, outcome]

vars == <<pc, call, response, attempts, outcome, prev>>

----------------------------------------------------------------------------
(* Bounds and input sets *)

\* largest number of poll records the server puts in a JSON array
MaxPolls == 4

Usernames == {"john", "jane"}
Passwords == {"pw"}
Skips == {0, 5}
Limits == {3, 10}
StatusCodes == {200, 201, 400, 500}

\* Python's None, as the value of status_code; distinct from every status
None == -1

----------------------------------------------------------------------------
(* Completion records: how a block of Python code ends *)

Return(v) == [kind |-> "return", value |-> v]
Raise(e) == [kind |-> "raise", exc |-> e]

NoCall == [op |-> "none"]
NoResponse == [kind |-> "none"]
NoOutcome == [kind |-> "none"]
NoPrev == [call |-> NoCall, response |-> NoResponse, outcome |-> NoOutcome]

----------------------------------------------------------------------------
(* Exceptions.  Bases(c) is the set of classes an except clause naming one *)
(* of them catches, for an exception of class c.                           *)

Bases(cls) ==
    CASE cls = "ConnectionError" ->
            {"ConnectionError", "RequestException", "OSError", "Exception"}
      [] cls = "ConnectTimeout" ->
            {"ConnectTimeout", "ConnectionError", "Timeout",
             "RequestException", "OSError", "Exception"}
      [] cls = "ReadTimeout" ->
            {"ReadTimeout", "Timeout", "RequestException", "OSError", "Exception"}
      [] cls = "TooManyRedirects" ->
            {"TooManyRedirects", "RequestException", "OSError", "Exception"}
      [] cls = "requests.JSONDecodeError" ->
            {"requests.JSONDecodeError", "InvalidJSONError", "RequestException",
             "OSError", "json.JSONDecodeError", "ValueError", "Exception"}
      [] cls = "AttributeError" -> {"AttributeError", "Exception"}
      [] cls = "RuntimeError" -> {"RuntimeError", "Exception"}
      [] OTHER -> {cls, "Exception"}

isinstance(e, cls) == cls \in Bases(e.cls)

\* what requests.post / requests.get can raise, with str(e)
TransportErrors ==
    { [cls |-> "ConnectionError", msg |-> "Connection refused"],
      [cls |-> "ConnectTimeout", msg |-> "Connection to 127.0.0.1 timed out"],
      [cls |-> "ReadTimeout", msg |-> "Read timed out. (read timeout=30)"],
      [cls |-> "TooManyRedirects", msg |-> "Exceeded 30 redirects."],
      [cls |-> "RuntimeError", msg |-> "boom"] }

----------------------------------------------------------------------------
(* Response bodies and response.json().  A parsed JSON value is a record   *)
(* [type, items, elems, repr]: type is the Python type name of the value,  *)
(* items the key/value pairs of a dict, elems the elements of a list, repr *)
(* the text of a scalar.                                                   *)

JsonDict(items) == [type |-> "dict", items |-> items, elems |-> <<>>, repr |-> ""]
JsonList(elems) == [type |-> "list", items |-> {}, elems |-> elems, repr |-> ""]
JsonScalar(type, repr) == [type |-> type, items |-> {}, elems |-> <<>>, repr |-> repr]

PollText(i) == "{\"id\":" \o ToString(i) \o "}"

RECURSIVE PollsJoin(_)
PollsJoin(n) ==
    IF n = 0 THEN ""
    ELSE IF n = 1 THEN PollText(1)
    ELSE PollsJoin(n - 1) \o "," \o PollText(n)

PollsText(n) == "[" \o PollsJoin(n) \o "]"

UserText == "{\"id\":1,\"username\":\"john\"}"
DetailText == "{\"detail\":\"username taken\"}"

\* the raw body texts a server may send
Bodies ==
    { PollsText(n) : n \in 0..MaxPolls }
    \cup { UserText, DetailText, "1", "\"ok\"", "null", "<html>", "" }

Responses ==
    { [kind |-> "response", status_code |-> s, text |-> b] :
        s \in StatusCodes, b \in Bodies }

JSONDecodeError ==
    [cls |-> "requests.JSONDecodeError",
     msg |-> "Expecting value: line 1 column 1 (char 0)"]

\* json.loads on a body text: the parsed value, or JSONDecodeError raised
json_loads(text) ==
    IF \E n \in 0..MaxPolls : text = PollsText(n)
    THEN LET n == CHOOSE k \in 0..MaxPolls : text = PollsText(k)
         IN  Return(JsonList([i \in 1..n |-> PollText(i)]))
    ELSE CASE text = UserText ->
                Return(JsonDict({<<"id", "1">>, <<"username", "john">>}))
           [] text = DetailText ->
                Return(JsonDict({<<"detail", "username taken">>}))
           [] text = "1" -> Return(JsonScalar("int", "1"))
           [] text = "\"ok\"" -> Return(JsonScalar("str", "ok"))
           [] text = "null" -> Return(JsonScalar("NoneType", "None"))
           [] OTHER -> Raise(JSONDecodeError)

\* response.json()
response_json(resp) == json_loads(resp.text)

\* error_data.get(key, default): only a dict has .get
AttributeError(type) ==
    [cls |-> "AttributeError",
     msg |-> "'" \o type \o "' object has no attribute 'get'"]

get(error_data, key, default) ==
    IF error_data.type # "dict" THEN Raise(AttributeError(error_data.type))
    ELSE IF \E p \in error_data.items : p[1] = key
         THEN Return((CHOOSE p \in error_data.items : p[1] = key)[2])
         ELSE Return(default)

----------------------------------------------------------------------------
(* try / except.  An except clause is [cls, error, str_e]: the class it    *)
(* names, the text of its error message, and whether str(e) is appended.   *)
(* Every clause of the source returns success False and status_code None.  *)

handler_result(h, e) ==
    [success |-> FALSE,
     error |-> IF h.str_e THEN h.error \o e.msg ELSE h.error,
     status_code |-> None]

\* the first clause, in source order, whose class the exception is an
\* instance of handles it; with no such clause the exception propagates
RECURSIVE except(_, _)
except(handlers, body) ==
    IF body.kind = "return" THEN body
    ELSE IF handlers = <<>> THEN body
    ELSE IF isinstance(body.exc, Head(handlers).cls)
         THEN Return(handler_result(Head(handlers), body.exc))
         ELSE except(Tail(handlers), body)

----------------------------------------------------------------------------
(* register_user *)

register_user_accepted_only_200(status_code) == status_code = 200

\* line 56
register_user_accepted(status_code) == status_code = 200 \/ status_code = 201

\* lines 57-61
register_user_success(resp, data) ==
    [success |-> TRUE, data |-> data, status_code |-> resp.status_code]

\* lines 64-68: the inner try/except that computes error_message
register_user_error_message(resp) ==
    LET error_data == response_json(resp) IN
    IF error_data.kind = "raise"
    THEN IF isinstance(error_data.exc, "json.JSONDecodeError")
         THEN Return("HTTP " \o ToString(resp.status_code) \o ": " \o resp.text)
         ELSE error_data
    ELSE get(error_data.value, "detail", "HTTP " \o ToString(resp.status_code))

\* lines 70-74
register_user_failure(resp, error_message) ==
    [success |-> FALSE, error |-> error_message, status_code |-> resp.status_code]

\* lines 46-74: the body of the outer try, given what requests.post produced
register_user_try(c, resp) ==
    IF resp.kind = "exception" THEN Raise(resp.exc)
    ELSE IF register_user_accepted(resp.status_code)
    THEN LET data == response_json(resp) IN
         IF data.kind = "raise" THEN data
         ELSE Return(register_user_success(resp, data.value))
    ELSE LET error_message == register_user_error_message(resp) IN
         IF error_message.kind = "raise" THEN error_message
         ELSE Return(register_user_failure(resp, error_message.value))

register_user_handlers_without_catch_all ==
    << [cls |-> "ConnectionError", str_e |-> FALSE,
        error |-> "Could not connect to the FastAPI server. Make sure it's running."],
       [cls |-> "Timeout", str_e |-> FALSE,
        error |-> "Request timed out. The server might be slow to respond."],
       [cls |-> "RequestException", str_e |-> TRUE, error |-> "Request failed: "] >>

\* lines 76-99: the except clauses of the outer try, in source order
register_user_handlers ==
    << [cls |-> "ConnectionError", str_e |-> FALSE,
        error |-> "Could not connect to the FastAPI server. Make sure it's running."],
       [cls |-> "Timeout", str_e |-> FALSE,
        error |-> "Request timed out. The server might be slow to respond."],
       [cls |-> "RequestException", str_e |-> TRUE, error |-> "Request failed: "],
       [cls |-> "Exception", str_e |-> TRUE, error |-> "Unexpected error: "] >>

register_user(c, resp) == except(register_user_handlers, register_user_try(c, resp))

----------------------------------------------------------------------------
(* get_polls *)

\* line 168
get_polls_accepted(status_code) == status_code = 200

is_list_or_dict(polls_data) == polls_data.type \in {"list", "dict"}

\* line 172
is_list(polls_data) == polls_data.type = "list"

get_polls_invalid_format_with_data(resp) ==
    [success |-> FALSE,
     data |-> JsonScalar("NoneType", "None"),
     error |-> "Invalid response format: expected list of polls",
     status_code |-> resp.status_code]

\* lines 173-177
get_polls_invalid_format(resp) ==
    [success |-> FALSE,
     error |-> "Invalid response format: expected list of polls",
     status_code |-> resp.status_code]

pagination_counts_limit(c, polls_data) ==
    [skip |-> c.skip, limit |-> c.limit, returned_count |-> c.limit]

\* lines 183-187
pagination(c, polls_data) ==
    [skip |-> c.skip, limit |-> c.limit, returned_count |-> Len(polls_data.elems)]

\* lines 179-188
get_polls_success(c, resp, polls_data) ==
    [success |-> TRUE,
     data |-> polls_data,
     status_code |-> resp.status_code,
     pagination |-> pagination(c, polls_data)]

\* lines 191-195
get_polls_error_message(resp) ==
    LET error_data == response_json(resp) IN
    IF error_data.kind = "raise"
    THEN IF isinstance(error_data.exc, "json.JSONDecodeError")
         THEN Return("HTTP " \o ToString(resp.status_code) \o ": " \o resp.text)
         ELSE error_data
    ELSE get(error_data.value, "detail", "HTTP " \o ToString(resp.status_code))

\* lines 197-201
get_polls_failure(resp, error_message) ==
    [success |-> FALSE, error |-> error_message, status_code |-> resp.status_code]

\* lines 158-201
get_polls_try(c, resp) ==
    IF resp.kind = "exception" THEN Raise(resp.exc)
    ELSE IF get_polls_accepted(resp.status_code)
    THEN LET polls_data == response_json(resp) IN
         IF polls_data.kind = "raise" THEN polls_data
         ELSE IF ~is_list(polls_data.value)
         THEN Return(get_polls_invalid_format(resp))
         ELSE Return(get_polls_success(c, resp, polls_data.value))
    ELSE LET error_message == get_polls_error_message(resp) IN
         IF error_message.kind = "raise" THEN error_message
         ELSE Return(get_polls_failure(resp, error_message.value))

get_polls_handlers_generic_first ==
    << [cls |-> "Exception", str_e |-> TRUE, error |-> "Unexpected error: "],
       [cls |-> "ConnectionError", str_e |-> FALSE,
        error |-> "Could not connect to the FastAPI server. Make sure it's running."],
       [cls |-> "Timeout", str_e |-> FALSE,
        error |-> "Request timed out. The server might be slow to respond."],
       [cls |-> "RequestException", str_e |-> TRUE, error |-> "Request failed: "] >>

\* lines 203-226
get_polls_handlers ==
    << [cls |-> "ConnectionError", str_e |-> FALSE,
        error |-> "Could not connect to the FastAPI server. Make sure it's running."],
       [cls |-> "Timeout", str_e |-> FALSE,
        error |-> "Request timed out. The server might be slow to respond."],
       [cls |-> "RequestException", str_e |-> TRUE, error |-> "Request failed: "],
       [cls |-> "Exception", str_e |-> TRUE, error |-> "Unexpected error: "] >>

get_polls(c, resp) == except(get_polls_handlers, get_polls_try(c, resp))

----------------------------------------------------------------------------
(* The state machine *)

Init ==
    /\ pc = "idle"
    /\ call = NoCall
    /\ response = NoResponse
    /\ attempts = 0
    /\ outcome = NoOutcome
    /\ prev = NoPrev

\* the caller enters register_user; the record of the previous call is
\* all that the model (not the program) remembers
RegisterUserCall ==
    \E u \in Usernames, p \in Passwords :
        /\ pc = "idle"
        /\ pc' = "request"
        /\ prev' = [call |-> call, response |-> response, outcome |-> outcome]
        /\ call' = [op |-> "register_user", username |-> u, password |-> p]
        /\ response' = NoResponse
        /\ attempts' = 0
        /\ outcome' = NoOutcome

\* the caller enters get_polls
GetPollsCall ==
    \E s \in Skips, l \in Limits :
        /\ pc = "idle"
        /\ pc' = "request"
        /\ prev' = [call |-> call, response |-> response, outcome |-> outcome]
        /\ call' = [op |-> "get_polls", skip |-> s, limit |-> l]
        /\ response' = NoResponse
        /\ attempts' = 0
        /\ outcome' = NoOutcome

retries_after_timeout(resp) ==
    /\ resp.kind = "exception"
    /\ isinstance(resp.exc, "Timeout")
    /\ attempts < 2

\* whether the function invokes the library again after this result: the
\* source has one requests.post / requests.get and no loop around it
retries(resp) == FALSE

\* what a library call can produce: a response, or an exception raised
Produced ==
    Responses \cup { [kind |-> "exception", exc |-> e] : e \in TransportErrors }

\* requests.post completes
RequestsPost ==
    /\ call.op = "register_user"
    /\ pc = "request" \/ (pc = "handle" /\ retries(response))
    /\ response' \in Produced
    /\ attempts' = attempts + 1
    /\ pc' = "handle"
    /\ UNCHANGED <<call, outcome, prev>>

\* requests.get completes
RequestsGet ==
    /\ call.op = "get_polls"
    /\ pc = "request" \/ (pc = "handle" /\ retries(response))
    /\ response' \in Produced
    /\ attempts' = attempts + 1
    /\ pc' = "handle"
    /\ UNCHANGED <<call, outcome, prev>>

RegisterUserReturn ==
    /\ pc = "handle"
    /\ call.op = "register_user"
    /\ ~retries(response)
    /\ outcome' = register_user(call, response)
    /\ pc' = "idle"
    /\ UNCHANGED <<call, response, attempts, prev>>

GetPollsReturn ==
    /\ pc = "handle"
    /\ call.op = "get_polls"
    /\ ~retries(response)
    /\ outcome' = get_polls(call, response)
    /\ pc' = "idle"
    /\ UNCHANGED <<call, response, attempts, prev>>

Next ==
    \/ RegisterUserCall
    \/ GetPollsCall
    \/ RequestsPost
    \/ RequestsGet
    \/ RegisterUserReturn
    \/ GetPollsReturn

Spec == Init /\ [][Next]_vars

----------------------------------------------------------------------------
(* Vocabulary of the properties *)

Done == pc = "idle" /\ call.op # "none"
Returned == Done /\ outcome.kind = "return"
Result == outcome.value
Got == response.kind = "response"
Failed(cls) == response.kind = "exception" /\ response.exc.cls = cls
Parses == Got /\ response_json(response).kind = "return"
Parsed == response_json(response).value
Keys == DOMAIN Result
Op(name) == call.op = name
Status(codes) == Got /\ response.status_code \in codes
TimedOutMessage == "Request timed out. The server might be slow to respond."
UnreachableMessage == "Could not connect to the FastAPI server. Make sure it's running."
HasDetail == Parsed.type = "dict" /\ \E p \in Parsed.items : p[1] = "detail"
Detail == (CHOOSE p \in Parsed.items : p[1] = "detail")[2]
RejectedByBoth(resp) ==
    \/ resp.kind = "exception"
    \/ resp.kind = "response" /\ resp.status_code \notin {200, 201}
Rejected ==
    \/ Op("register_user") /\ Got /\ response.status_code \notin {200, 201}
    \/ Op("get_polls") /\ Got /\ response.status_code # 200

----------------------------------------------------------------------------
(* Properties *)

\* C1: every returned Result holds exactly one of the keys data / error:
\* data and no error when success is true, error and no data when false.
C1_ExactlyOneOfDataError ==
    Returned =>
        /\ ("data" \in Keys) # ("error" \in Keys)
        /\ Result.success => ("data" \in Keys /\ "error" \notin Keys)
        /\ ~Result.success => ("error" \in Keys /\ "data" \notin Keys)

\* C1 witness: get_polls returned after an unclassified exception, and
\* register_user's Result before it was a success
C1_Witness ==
    /\ Returned /\ Op("get_polls") /\ Failed("RuntimeError")
    /\ prev.outcome.kind = "return" /\ prev.outcome.value.success

\* C2 (as claimed): status_code is None exactly when the request failed at
\* transport level; whenever a response was received, status_code is the
\* received status code.
C2_StatusCodeNullIffTransport ==
    Returned =>
        /\ (Result.status_code = None) <=> (response.kind = "exception")
        /\ Got => Result.status_code = response.status_code

\* C3: a finished call has returned a Result with a boolean success field;
\* no exception has propagated to the caller.
C3_NothingRaised ==
    Done => /\ outcome.kind = "return"
            /\ "success" \in DOMAIN outcome.value
            /\ outcome.value.success \in BOOLEAN

\* C3 witness: the call ended after error-message extraction raised
\* AttributeError (a rejected status with a JSON body that is not an object)
C3_Witness ==
    /\ Done /\ Rejected /\ Parses /\ Parsed.type # "dict"
    /\ outcome.kind = "return"

\* C4 (as claimed): every timeout, while connecting or while waiting for the
\* response, yields success False, status_code None and the timed-out message.
C4_TimeoutMessage ==
    (Done /\ (Failed("ConnectTimeout") \/ Failed("ReadTimeout"))) =>
        /\ Returned
        /\ Result = [success |-> FALSE, error |-> TimedOutMessage,
                     status_code |-> None]
        /\ Result.error # UnreachableMessage

\* C5 (as claimed): register_user, on any 200 or 201 response, returns
\* success True with data the parsed body and the received status code.
C5_AcceptedIsSuccess ==
    (Done /\ Op("register_user") /\ Status({200, 201})) =>
        /\ Returned
        /\ Result.success
        /\ Parses
        /\ Result = [success |-> TRUE, data |-> Parsed,
                     status_code |-> response.status_code]

\* C5 (amended): register_user, on a 200 or 201 response whose body parses
\* as JSON, returns success True with data the parsed body, of any JSON
\* shape, and the received status code; and these are the only successes.
C5_AcceptedParsedIsSuccess ==
    /\ (Done /\ Op("register_user") /\ Status({200, 201}) /\ Parses) =>
          /\ Returned
          /\ Result = [success |-> TRUE, data |-> Parsed,
                       status_code |-> response.status_code]
    /\ (Returned /\ Op("register_user") /\ Result.success) =>
          (Status({200, 201}) /\ Parses)

\* C5 witness: 201 with a body that is a JSON scalar, not an object
C5_Witness ==
    /\ Returned /\ Op("register_user") /\ Status({201})
    /\ Parses /\ Parsed.type = "NoneType" /\ Result.success

\* C6 (as claimed): on a status outside the accepted set the Result is
\* success False with the received status code, and error is the body's
\* detail when the body parses as JSON, else "HTTP <code>: <text>"; for
\* every body, JSON bodies that are not objects included.
C6_RejectedStatusMapping ==
    (Done /\ Rejected) =>
        /\ Returned
        /\ ~Result.success
        /\ Result.status_code = response.status_code
        /\ (Parses /\ HasDetail) => Result.error = Detail
        /\ ~Parses => Result.error =
              "HTTP " \o ToString(response.status_code) \o ": " \o response.text

\* C7 (as claimed): get_polls, on a 200 whose body parses to a value that is
\* not a list, returns success False, the error text as the claim spells it,
\* status_code 200, and neither data nor pagination.
C7_NotAListLowercase ==
    (Done /\ Op("get_polls") /\ Status({200}) /\ Parses /\ Parsed.type # "list") =>
        /\ Returned
        /\ Result = [success |-> FALSE,
                     error |-> "invalid response format: expected list of polls",
                     status_code |-> 200]

\* C7 (amended): as claimed, with the error text as the source spells it,
\* "Invalid response format: expected list of polls" (capital I).
C7_NotAListIsInvalidFormat ==
    (Done /\ Op("get_polls") /\ Status({200}) /\ Parses /\ Parsed.type # "list") =>
        /\ Returned
        /\ Result = [success |-> FALSE,
                     error |-> "Invalid response format: expected list of polls",
                     status_code |-> 200]

\* C7 witness: get_polls returned for a 200 whose body is a JSON object
C7_Witness ==
    /\ Returned /\ Op("get_polls") /\ Status({200})
    /\ Parses /\ Parsed.type = "dict" /\ ~Result.success

\* C8: get_polls, on a 200 whose body is a JSON list, returns success True,
\* data the list, and pagination echoing the caller's skip and limit with
\* returned_count the length of data; no other Result has pagination.
C8_Pagination ==
    /\ (Done /\ Op("get_polls") /\ Status({200}) /\ Parses /\ Parsed.type = "list") =>
          /\ Returned
          /\ Result = [success |-> TRUE, data |-> Parsed, status_code |-> 200,
                       pagination |-> [skip |-> call.skip, limit |-> call.limit,
                                       returned_count |-> Len(Result.data.elems)]]
    /\ (Returned /\ "pagination" \in Keys) =>
          /\ Op("get_polls") /\ Result.success
          /\ Status({200}) /\ Parses /\ Parsed.type = "list"

\* C8 witness: the server returned more records than limit
C8_Witness ==
    /\ Returned /\ Op("get_polls") /\ "pagination" \in Keys
    /\ Result.pagination.returned_count > call.limit
    /\ call.skip = 5

\* C9: for the same transport failure, or the same response with a status
\* other than 200 and 201, get_polls and register_user return equal Results.
C9_SameFailurePolicy ==
    (/\ Done /\ prev.call.op # "none" /\ prev.call.op # call.op
     /\ prev.response = response /\ RejectedByBoth(response)) =>
        /\ outcome.kind = "return"
        /\ prev.outcome = outcome

\* C9 witness: both functions have handled the same 400 response whose body
\* is not JSON
C9_Witness ==
    /\ Done /\ Op("get_polls") /\ prev.call.op = "register_user"
    /\ prev.response = response /\ Status({400}) /\ ~Parses
    /\ outcome.kind = "return"

====
